---- MODULE Spec2Model ----
(***************************************************************************)
(* LitShare (src/src/share.ts): a process-wide registry of shared values.  *)
(* The model keeps the four static maps of the class, the prototype of the *)
(* plain object that stores the values, and the call stack of the single   *)
(* JavaScript thread: a set call in progress is a frame, and a listener or *)
(* a component that has been called is a callback frame from inside which  *)
(* the registry may be called again.                                       *)
(***************************************************************************)
EXTENDS Naturals, Sequences, FiniteSets, TLC

VARIABLES
    values,              \* own properties of LitShare.values
    proto,               \* [[Prototype]] of LitShare.values
    requestUpdates,      \* LitShare.requestUpdates
    hasChangedFunctions, \* LitShare.hasChangedFunctions
    listeners,           \* LitShare.listeners
    accessors,           \* accessor properties share() defined on the class prototypes
    stack,               \* call stack, innermost frame last
    nested,              \* registry calls made from callbacks since the outermost call began
    last,                \* the latest registry call and how far it has come
    setCalls,            \* history: the keys set has been called with
    callbacks,           \* environment: the registry calls the callbacks of one
                         \* outermost set call make at most
    closures,            \* per key and listener, the first closure addListener returned
    reads                \* history: the (component, property) pairs whose getter has run
                         \* and whose subscription has not been removed since

vars == <<values, proto, requestUpdates, hasChangedFunctions, listeners,
          accessors, stack, nested, last, setCalls, callbacks, closures, reads>>

-----------------------------------------------------------------------------
(* Bounds of the model *)

\* set calls that may be in progress at once (1 = no set from inside a callback)
MaxDepth == 2
\* registry calls made from inside callbacks during one outermost set call
MaxNested == 1

-----------------------------------------------------------------------------
(* JavaScript values *)

Undefined == "undefined"
Null == "null"
NaN == "NaN"
\* plain objects {id: 1}, {id: 1}, {id: 2}: three identities, two ids
Objects == {"O1", "O2", "O3"}
\* Object.prototype and Object.prototype.toString: reachable through values
ObjectPrototype == "Object.prototype"
FnToString == "Object.prototype.toString"
Numbers == {"n0", "n1"}
Values == {Undefined, Null, NaN} \cup Numbers \cup Objects \cup {ObjectPrototype, FnToString}

\* typeof v is "object" or "function", v not null: what the __proto__ setter accepts
IsObject(v) == v \in Objects \cup {ObjectPrototype, FnToString}

\* !v
Falsy(v) == v \in {Undefined, Null, NaN, "n0"}

\* a === b
StrictEq(a, b) == a = b /\ a # NaN

\* the property id of a value: "TypeError" when v is null or undefined
IdOf(v) ==
    CASE v \in {Undefined, Null} -> "TypeError"
      [] v \in {"O1", "O2"} -> "n1"
      [] v = "O3" -> "n2"
      [] OTHER -> Undefined

\* no own property / no entry
Absent == "<absent>"

\* the names the model uses as keys of the registry
OrdinaryKeys == {"count", "x"}
\* names Object.prototype defines: a data property and the __proto__ accessor
InheritedKeys == {"toString", "__proto__"}
Keys == OrdinaryKeys \cup InheritedKeys

Elements == {"c1", "c2"}
Listeners == {"l1", "l2"}
\* component classes and their property names
Classes == {"A", "B"}
Props == {"count", "data"}
Targets == Props \cup Keys

-----------------------------------------------------------------------------
(* The object LitShare.values = {} *)

\* the prototype chain of values reaches Object.prototype
ChainHasObjectPrototype == proto # Null

\* key in this.values
HasProperty(key) ==
    \/ values[key] # Absent
    \/ ChainHasObjectPrototype /\ key \in InheritedKeys

\* this.values[key]
Lookup(key) ==
    IF values[key] # Absent THEN values[key]
    ELSE IF ~ChainHasObjectPrototype THEN Undefined
    ELSE IF key = "toString" THEN FnToString
    ELSE IF key = "__proto__" THEN proto
    ELSE Undefined

\* the own properties after this.values[key] = value
StoreOwn(key, value) ==
    IF key = "__proto__" /\ values[key] = Absent /\ ChainHasObjectPrototype
    THEN values
    ELSE [values EXCEPT ![key] = value]

\* the prototype after this.values[key] = value
StoreProto(key, value) ==
    IF key = "__proto__" /\ values[key] = Absent /\ ChainHasObjectPrototype
       /\ (IsObject(value) \/ value = Null)
    THEN value
    ELSE proto

-----------------------------------------------------------------------------
(* Equality functions *)

defaultHasChanged(value, oldValue) ==
    ~StrictEq(value, oldValue) /\ (StrictEq(value, value) \/ StrictEq(oldValue, oldValue))

\* (a, b) => a.id !== b.id raises a TypeError when a or b is null or undefined
idDiffersThrows(a, b) == IdOf(a) = "TypeError" \/ IdOf(b) = "TypeError"

\* (a, b) => a.id !== b.id
idDiffers(a, b) == ~StrictEq(IdOf(a), IdOf(b))

\* (newVal, oldVal) => !oldVal || newVal?.id !== oldVal.id
demoHasChanged(newVal, oldVal) ==
    IF Falsy(oldVal) THEN TRUE
    ELSE ~StrictEq(IF newVal \in {Undefined, Null} THEN Undefined ELSE IdOf(newVal),
                   IdOf(oldVal))

HasChangedNames == {"idDiffers", "demoHasChanged", "always"}

\* this.hasChangedFunctions.get(key) ?? defaultHasChanged, applied: does it throw
HasChangedThrows(key, value, oldValue) ==
    hasChangedFunctions[key] = "idDiffers" /\ idDiffersThrows(value, oldValue)

\* this.hasChangedFunctions.get(key) ?? defaultHasChanged, applied: its result
HasChanged(key, value, oldValue) ==
    CASE hasChangedFunctions[key] = "idDiffers" -> idDiffers(value, oldValue)
      [] hasChangedFunctions[key] = "demoHasChanged" -> demoHasChanged(value, oldValue)
      [] hasChangedFunctions[key] = "always" -> TRUE
      [] OTHER -> defaultHasChanged(value, oldValue)

-----------------------------------------------------------------------------
(* Sequences as insertion-ordered Map and Set.  A Map or Set that was never *)
(* created and an empty one are the same empty sequence: every use in the   *)
(* code either skips its loop or loops over nothing.                        *)

\* s without its item at position p
RemoveAt(s, p) == SubSeq(s, 1, p - 1) \o SubSeq(s, p + 1, Len(s))

\* elementMap position of element, 0 when it has no entry
EntryOf(key, element) ==
    LET elementMap == requestUpdates[key] IN
    IF \E n \in DOMAIN elementMap : elementMap[n].element = element
    THEN CHOOSE n \in DOMAIN elementMap : elementMap[n].element = element
    ELSE 0

\* listenerSet position of listener, 0 when it is not in the set
ListenerAt(key, listener) ==
    LET listenerSet == listeners[key] IN
    IF \E n \in DOMAIN listenerSet : listenerSet[n] = listener
    THEN CHOOSE n \in DOMAIN listenerSet : listenerSet[n] = listener
    ELSE 0

\* targets.includes(target)
Includes(targets, target) == \E n \in DOMAIN targets : targets[n] = target

\* the result undefined of findRequestUpdate
NoTargets == <<>>

\* the result of findRequestUpdate: NoTargets, or <<targets>> for the array targets
findRequestUpdate(key, element) ==
    IF EntryOf(key, element) = 0 THEN NoTargets
    ELSE <<requestUpdates[key][EntryOf(key, element)].targets>>

\* LitShare.get(key, defaultValue)
get(key, defaultValue) == IF HasProperty(key) THEN Lookup(key) ELSE defaultValue

-----------------------------------------------------------------------------
(* The call stack *)

Top == stack[Len(stack)]

\* CanCall on a runtime that lets a caller run while a set call is inside its
\* own loops (another thread, or a loop that yields)
CanCall_WhileSetRuns == stack = <<>> \/ nested < callbacks

\* the caller is the host (no call in progress) or a callback that may still call
CanCall == IF stack = <<>> THEN TRUE ELSE Top.kind = "callback" /\ nested < callbacks

\* set calls in progress
Depth == Cardinality({n \in DOMAIN stack : stack[n].kind = "set"})

\* nested after a registry call
Counted == IF stack = <<>> THEN 0 ELSE nested + 1

\* the set frames of s learn that a callback of theirs called the registry
Reentered(s) ==
    IF s = <<>> THEN <<>>
    ELSE [n \in DOMAIN s |->
            IF s[n].kind = "set" THEN [s[n] EXCEPT !.reentered = TRUE] ELSE s[n]]

\* the frame of a set call that has stored its value (share.ts line 128)
SetFrame(key, value, force, oldValue) ==
    [kind |-> "set", key |-> key, value |-> value, force |-> force,
     oldValue |-> oldValue,
     pc |-> "listeners",   \* "listeners": lines 131-136, "updates": lines 155-162
     i |-> 0,              \* listenerSet entries the iterator has passed
     j |-> 0,              \* elementMap entries the iterator has passed
     inner |-> FALSE,      \* the loop over targets of an entry is running
     element |-> Absent,   \* the element of that entry
     t |-> 0,              \* targets the inner iterator has passed
     detached |-> FALSE,   \* the entry was deleted from elementMap meanwhile
     targets |-> <<>>,     \* the array of a detached entry
     log |-> <<>>,         \* history: the callbacks this call has made
     reentered |-> FALSE,  \* history: a callback of this call has called the registry
     first |-> key \notin setCalls]  \* history: no set call on key came before

\* the frame of listener(value, oldValue) or element.requestUpdate(target, hint)
CallbackFrame(event) == [kind |-> "callback", event |-> event]

ListenerEvent(listener, value, oldValue) ==
    [type |-> "listener", who |-> listener, key |-> Absent, target |-> Absent,
     value |-> value, oldValue |-> oldValue]

UpdateEvent(key, element, target, hint) ==
    [type |-> "update", who |-> element, key |-> key, target |-> target,
     value |-> Absent, oldValue |-> hint]

-----------------------------------------------------------------------------
\* the registry after the class LitShare has been initialised
Fresh ==
    /\ values = [k \in Keys |-> Absent]
    /\ proto = ObjectPrototype
    /\ requestUpdates = [k \in Keys |-> <<>>]
    /\ hasChangedFunctions = [k \in Keys |-> Absent]
    /\ listeners = [k \in Keys |-> <<>>]
    /\ accessors = [c \in Classes |-> [p \in Props |-> Absent]]
    /\ stack = <<>>
    /\ nested = 0
    /\ last = [op |-> "none"]
    /\ setCalls = {}
    /\ closures = [k \in Keys |-> [l \in Listeners |-> "none"]]
    /\ reads = {}

\* listeners and components that call the registry
Init == Fresh /\ callbacks = MaxNested

\* listeners and components that only return
InitQuiet == Fresh /\ callbacks = 0

-----------------------------------------------------------------------------
(* Subscriptions *)

\* the absent argument target of register
NoTarget == ""

\* Registered without the test of line 65: the target is pushed again
Registered_PushesAgain(key, element, target) ==
    LET tgt == IF target = NoTarget THEN key ELSE target
        p == EntryOf(key, element)
        elementMap == requestUpdates[key]
    IN IF p = 0 THEN Append(elementMap, [element |-> element, targets |-> <<tgt>>])
       ELSE [elementMap EXCEPT ![p].targets = Append(@, tgt)]

\* elementMap after register(key, element, target)
Registered(key, element, target) ==
    LET tgt == IF target = NoTarget THEN key ELSE target
        p == EntryOf(key, element)
        elementMap == requestUpdates[key]
    IN IF p = 0 THEN Append(elementMap, [element |-> element, targets |-> <<tgt>>])
       ELSE IF ~Includes(elementMap[p].targets, tgt)
            THEN [elementMap EXCEPT ![p].targets = Append(@, tgt)]
            ELSE elementMap

register(key, element, target) ==
    /\ CanCall
    /\ requestUpdates' = [requestUpdates EXCEPT ![key] = Registered(key, element, target)]
    /\ stack' = Reentered(stack)
    /\ nested' = Counted
    /\ last' = [op |-> "register",
                again |-> Registered(key, element, target) = requestUpdates[key]]
    /\ UNCHANGED <<values, proto, hasChangedFunctions, listeners, accessors>>
    /\ UNCHANGED <<setCalls, callbacks, closures, reads>>

\* a frame after elementMap.delete(element) for the keys in ks: a running
\* iterator of that Map skips the entry, and a running iterator of the entry's
\* array keeps the array
Unsubscribed(f, ks, element) ==
    IF f.kind \in {"set", "requestUpdate"} /\ f.pc = "updates" /\ f.key \in ks
       /\ EntryOf(f.key, element) # 0
    THEN LET p == EntryOf(f.key, element)
             current == f.inner /\ ~f.detached /\ f.element = element
         IN [f EXCEPT !.j = IF p <= f.j THEN f.j - 1 ELSE f.j,
                      !.detached = IF current THEN TRUE ELSE @,
                      !.targets = IF current THEN requestUpdates[f.key][p].targets ELSE @]
    ELSE f

\* the class a component is an instance of
ClassOf(element) == IF element = "c1" THEN "A" ELSE "B"

\* reads after the subscriptions of element under the keys in ks are removed
StillRead(ks, element) ==
    {r \in reads : ~(r[1] = element /\ accessors[ClassOf(r[1])][r[2]] \in ks)}

\* Unregistered emptying the array of the entry instead of deleting the entry
Unregistered_LeavesEmptyList(key, element) ==
    IF EntryOf(key, element) = 0 THEN requestUpdates[key]
    ELSE [requestUpdates[key] EXCEPT ![EntryOf(key, element)].targets = <<>>]

\* Unregistered as this.requestUpdates.delete(key): every component's entry
\* under the key goes
Unregistered_ClearsKey(key, element) == <<>>

\* elementMap of key after unregister(key, element)
Unregistered(key, element) ==
    IF EntryOf(key, element) = 0 THEN requestUpdates[key]
    ELSE RemoveAt(requestUpdates[key], EntryOf(key, element))

unregister(key, element) ==
    /\ CanCall
    /\ requestUpdates' = [requestUpdates EXCEPT ![key] = Unregistered(key, element)]
    /\ stack' = IF stack = <<>> THEN <<>>
                ELSE [n \in DOMAIN stack |->
                        Unsubscribed(Reentered(stack)[n], {key}, element)]
    /\ nested' = Counted
    /\ last' = [op |-> "unregister"]
    /\ UNCHANGED <<values, proto, hasChangedFunctions, listeners, accessors>>
    /\ reads' = StillRead({key}, element)
    /\ UNCHANGED <<setCalls, callbacks, closures>>

\* unregisterElement whose loop over the keys stops after the key "count"
unregisterElement_OneKeyOnly(element) ==
    /\ CanCall
    /\ requestUpdates' = [requestUpdates EXCEPT !["count"] = Unregistered("count", element)]
    /\ stack' = IF stack = <<>> THEN <<>>
                ELSE [n \in DOMAIN stack |->
                        Unsubscribed(Reentered(stack)[n], {"count"}, element)]
    /\ nested' = Counted
    /\ last' = [op |-> "unregisterElement",
                removed |-> Cardinality({k \in Keys : EntryOf(k, element) # 0})]
    /\ UNCHANGED <<values, proto, hasChangedFunctions, listeners, accessors>>
    /\ reads' = StillRead({"count"}, element)
    /\ UNCHANGED <<setCalls, callbacks, closures>>

unregisterElement(element) ==
    /\ CanCall
    /\ requestUpdates' = [k \in Keys |-> Unregistered(k, element)]
    /\ stack' = IF stack = <<>> THEN <<>>
                ELSE [n \in DOMAIN stack |->
                        Unsubscribed(Reentered(stack)[n], Keys, element)]
    /\ nested' = Counted
    /\ last' = [op |-> "unregisterElement",
                removed |-> Cardinality({k \in Keys : EntryOf(k, element) # 0})]
    /\ UNCHANGED <<values, proto, hasChangedFunctions, listeners, accessors>>
    /\ reads' = StillRead(Keys, element)
    /\ UNCHANGED <<setCalls, callbacks, closures>>

-----------------------------------------------------------------------------
(* Listeners *)

addListener(key, listener) ==
    /\ CanCall
    /\ listeners' = [listeners EXCEPT ![key] =
                        IF ListenerAt(key, listener) = 0 THEN Append(@, listener) ELSE @]
    /\ stack' = Reentered(stack)
    /\ nested' = Counted
    /\ last' = [op |-> "addListener"]
    /\ closures' = [closures EXCEPT ![key][listener] = IF @ = "none" THEN "held" ELSE @]
    /\ UNCHANGED <<values, proto, requestUpdates, hasChangedFunctions, accessors>>
    /\ UNCHANGED <<setCalls, callbacks, reads>>

\* Unlistened for a loop that counts positions of an array instead of using
\* the iterator of the Set: the entries behind the deleted one move down and
\* the loop skips one
Unlistened_KeepsPosition(f, key, listener) == f

\* a frame after listenerSet.delete(listener): a running iterator of that Set
\* skips the entry
Unlistened(f, key, listener) ==
    IF f.kind = "set" /\ f.pc = "listeners" /\ f.key = key
       /\ ListenerAt(key, listener) # 0 /\ ListenerAt(key, listener) <= f.i
    THEN [f EXCEPT !.i = f.i - 1]
    ELSE f

removeListener(key, listener) ==
    /\ CanCall
    /\ listeners' = [listeners EXCEPT ![key] =
                        IF ListenerAt(key, listener) = 0 THEN @
                        ELSE RemoveAt(@, ListenerAt(key, listener))]
    /\ stack' = IF stack = <<>> THEN <<>>
                ELSE [n \in DOMAIN stack |->
                        Unlistened(Reentered(stack)[n], key, listener)]
    /\ nested' = Counted
    /\ last' = [op |-> "removeListener"]
    /\ UNCHANGED <<values, proto, requestUpdates, hasChangedFunctions, accessors>>
    /\ UNCHANGED <<setCalls, callbacks, closures, reads>>

\* line 96: the closure () => this.removeListener(key, listener) that the
\* first addListener(key, listener) returned is invoked; "held" until then,
\* "called" afterwards
unsubscribe(key, listener) ==
    /\ CanCall
    /\ closures[key][listener] # "none"
    /\ listeners' = [listeners EXCEPT ![key] =
                        IF ListenerAt(key, listener) = 0 THEN @
                        ELSE RemoveAt(@, ListenerAt(key, listener))]
    /\ stack' = IF stack = <<>> THEN <<>>
                ELSE [n \in DOMAIN stack |->
                        Unlistened(Reentered(stack)[n], key, listener)]
    /\ nested' = Counted
    /\ closures' = [closures EXCEPT ![key][listener] = "called"]
    /\ last' = [op |-> "unsubscribe", key |-> key, listener |-> listener,
                again |-> closures[key][listener] = "called"]
    /\ UNCHANGED <<values, proto, requestUpdates, hasChangedFunctions, accessors>>
    /\ UNCHANGED <<setCalls, callbacks, reads>>

-----------------------------------------------------------------------------
(* set and get *)

\* what a set call reports when it returns
SetResult(key, value, force, oldValue, outcome) ==
    [op |-> "set", key |-> key, value |-> value, force |-> force,
     oldValue |-> oldValue, outcome |-> outcome]

\* Accepted with line 122 reduced to the default: a registered equality
\* function is never looked up
Accepted_DefaultOnly(key, value, force) == force \/ defaultHasChanged(value, Lookup(key))

\* lines 121-126: the call goes on to store the value
Accepted(key, value, force) == force \/ HasChanged(key, value, Lookup(key))

\* set with line 128 moved above the test of lines 121-126: a rejected
\* write is stored all the same
set_StoresBeforeCheck(key, value, force) ==
    /\ CanCall
    /\ Depth < MaxDepth
    /\ nested' = Counted
    /\ setCalls' = setCalls \cup {key}
    /\ UNCHANGED <<callbacks, closures, reads>>
    /\ UNCHANGED <<requestUpdates, hasChangedFunctions, listeners, accessors>>
    /\ values' = StoreOwn(key, value)
    /\ proto' = StoreProto(key, value)
    /\ LET oldValue == Lookup(key) IN
       IF ~force /\ HasChangedThrows(key, value, oldValue)
       THEN /\ last' = SetResult(key, value, force, oldValue, "threw")
            /\ stack' = Reentered(stack)
       ELSE IF ~Accepted(key, value, force)
       THEN /\ last' = SetResult(key, value, force, oldValue, "rejected")
            /\ stack' = Reentered(stack)
       ELSE /\ stack' = Append(Reentered(stack), SetFrame(key, value, force, oldValue))
            /\ last' = SetResult(key, value, force, oldValue, "accepted")

\* lines 118-128 of set: the old value is read, the equality function decides
\* and the value is stored; the loops of lines 131-138 run as later steps
set(key, value, force) ==
    /\ CanCall
    /\ Depth < MaxDepth
    /\ nested' = Counted
    /\ setCalls' = setCalls \cup {key}
    /\ UNCHANGED <<callbacks, closures, reads>>
    /\ UNCHANGED <<requestUpdates, hasChangedFunctions, listeners, accessors>>
    /\ LET oldValue == Lookup(key) IN
       IF ~force /\ HasChangedThrows(key, value, oldValue)
       THEN /\ last' = SetResult(key, value, force, oldValue, "threw")
            /\ stack' = Reentered(stack)
            /\ UNCHANGED <<values, proto>>
       ELSE IF ~Accepted(key, value, force)
       THEN /\ last' = SetResult(key, value, force, oldValue, "rejected")
            /\ stack' = Reentered(stack)
            /\ UNCHANGED <<values, proto>>
       ELSE /\ values' = StoreOwn(key, value)
            /\ proto' = StoreProto(key, value)
            /\ stack' = Append(Reentered(stack), SetFrame(key, value, force, oldValue))
            /\ last' = SetResult(key, value, force, oldValue, "accepted")

\* the array the inner loop of requestUpdate iterates
TargetsOf(f) ==
    IF f.detached THEN f.targets
    ELSE requestUpdates[f.key][EntryOf(f.key, f.element)].targets

\* the loop over listenerSet has an entry left
ListenerLeft(f) == f.pc = "listeners" /\ f.i < Len(listeners[f.key])

\* the loop over targets has an item left
TargetLeft(f) == f.inner /\ f.t < Len(TargetsOf(f))

\* the loop over elementMap.entries() has an entry left
EntryLeft(f) == f.j < Len(requestUpdates[f.key])

\* lines 133-135: the next listener of the Set is called
InvokeListener ==
    /\ stack # <<>> /\ Top.kind = "set" /\ ListenerLeft(Top)
    /\ LET f == Top
           event == ListenerEvent(listeners[f.key][f.i + 1], f.value, f.oldValue)
       IN stack' = Append([stack EXCEPT ![Len(stack)] =
                              [f EXCEPT !.i = f.i + 1, !.log = Append(@, event)]],
                          CallbackFrame(event))
    /\ UNCHANGED <<values, proto, requestUpdates, hasChangedFunctions, listeners,
                   accessors, nested, last>>
    /\ UNCHANGED <<setCalls, callbacks, closures, reads>>

\* the value requestUpdate passes on as the old value (line 159)
Hint(f) == IF f.force THEN Undefined ELSE f.oldValue

\* InvokeUpdate with line 138 moved above the loop of lines 131-136: the
\* components are asked to update while listeners are still to be called
InvokeUpdate_BeforeListeners ==
    /\ stack # <<>> /\ Top.kind = "set"
    /\ TargetLeft(Top) \/ EntryLeft(Top)
    /\ LET f == Top
           g == IF TargetLeft(f)
                THEN [f EXCEPT !.t = f.t + 1]
                ELSE [f EXCEPT !.j = f.j + 1, !.inner = TRUE,
                               !.element = requestUpdates[f.key][f.j + 1].element,
                               !.t = 1, !.detached = FALSE, !.targets = <<>>]
           event == UpdateEvent(f.key, g.element, TargetsOf(g)[g.t], Hint(f))
       IN stack' = Append([stack EXCEPT ![Len(stack)] = [g EXCEPT !.log = Append(@, event)]],
                          CallbackFrame(event))
    /\ UNCHANGED <<values, proto, requestUpdates, hasChangedFunctions, listeners,
                   accessors, nested, last, setCalls, callbacks, closures, reads>>

\* lines 138 and 155-161: element.requestUpdate is called for the next target
\* of the current entry, or for the first target of the next entry
InvokeUpdate ==
    /\ stack # <<>> /\ Top.kind \in {"set", "requestUpdate"} /\ ~ListenerLeft(Top)
    /\ TargetLeft(Top) \/ EntryLeft(Top)
    /\ LET f == Top
           g == IF TargetLeft(f)
                THEN [f EXCEPT !.pc = "updates", !.t = f.t + 1]
                ELSE [f EXCEPT !.pc = "updates", !.j = f.j + 1, !.inner = TRUE,
                               !.element = requestUpdates[f.key][f.j + 1].element,
                               !.t = 1, !.detached = FALSE, !.targets = <<>>]
           event == UpdateEvent(f.key, g.element, TargetsOf(g)[g.t], Hint(f))
       IN stack' = Append([stack EXCEPT ![Len(stack)] = [g EXCEPT !.log = Append(@, event)]],
                          CallbackFrame(event))
    /\ UNCHANGED <<values, proto, requestUpdates, hasChangedFunctions, listeners,
                   accessors, nested, last>>
    /\ UNCHANGED <<setCalls, callbacks, closures, reads>>

\* the listener or the component returns
CallbackReturn ==
    /\ stack # <<>> /\ Top.kind = "callback"
    /\ stack' = SubSeq(stack, 1, Len(stack) - 1)
    /\ UNCHANGED <<values, proto, requestUpdates, hasChangedFunctions, listeners,
                   accessors, nested, last>>
    /\ UNCHANGED <<setCalls, callbacks, closures, reads>>

\* what a set call reports when a callback of its raised an error: the frame
\* f at stack position at is left by the exception
Aborted(f, at, event) ==
    [op |-> "set", key |-> f.key, value |-> f.value, force |-> f.force,
     oldValue |-> f.oldValue, outcome |-> "aborted", at |-> at, by |-> event.type,
     left |-> IF f.pc = "listeners" THEN Len(listeners[f.key]) - f.i ELSE 0]

\* CallbackThrow with the call of line 134 wrapped in a try block that
\* swallows the error: the set call goes on with its loops
CallbackThrow_Swallowed ==
    /\ stack # <<>> /\ Top.kind = "callback"
    /\ stack' = SubSeq(stack, 1, Len(stack) - 1)
    /\ last' = Aborted(stack[Len(stack) - 1], Len(stack) - 1, Top.event)
    /\ UNCHANGED <<values, proto, requestUpdates, hasChangedFunctions, listeners,
                   accessors, nested, setCalls, callbacks, closures, reads>>

\* the listener or the component raises an error: neither loop of set has a
\* try block, so the exception leaves the callback and the set call (lines
\* 134 and 159) and reaches the caller of set
CallbackThrow ==
    /\ stack # <<>> /\ Top.kind = "callback"
    /\ stack' = SubSeq(stack, 1, Len(stack) - 2)
    /\ nested' = IF Len(stack) = 2 THEN 0 ELSE nested
    /\ last' = Aborted(stack[Len(stack) - 1], Len(stack) - 1, Top.event)
    /\ UNCHANGED <<values, proto, requestUpdates, hasChangedFunctions, listeners, accessors>>
    /\ UNCHANGED <<setCalls, callbacks, closures, reads>>

\* both loops are over: set returns to its caller
SetReturn ==
    /\ stack # <<>> /\ Top.kind = "set"
    /\ ~ListenerLeft(Top) /\ ~TargetLeft(Top) /\ ~EntryLeft(Top)
    /\ stack' = SubSeq(stack, 1, Len(stack) - 1)
    /\ nested' = IF Len(stack) = 1 THEN 0 ELSE nested
    /\ last' = SetResult(Top.key, Top.value, Top.force, Top.oldValue, "returned")
    /\ UNCHANGED <<values, proto, requestUpdates, hasChangedFunctions, listeners, accessors>>
    /\ UNCHANGED <<setCalls, callbacks, closures, reads>>

\* LitShare.requestUpdate(key, oldValue, force) called by the host or by a
\* callback: the loops of lines 155-162 run as later steps, as for set
requestUpdate(key, oldValue, force) ==
    /\ CanCall
    /\ stack' = Append(Reentered(stack),
                       [SetFrame(key, Absent, force, oldValue) EXCEPT
                           !.kind = "requestUpdate", !.pc = "updates"])
    /\ nested' = Counted
    /\ last' = [op |-> "requestUpdate"]
    /\ UNCHANGED <<values, proto, requestUpdates, hasChangedFunctions, listeners, accessors>>
    /\ UNCHANGED <<setCalls, callbacks, closures, reads>>

\* the loops of a direct requestUpdate call are over: it returns
RequestUpdateReturn ==
    /\ stack # <<>> /\ Top.kind = "requestUpdate"
    /\ ~TargetLeft(Top) /\ ~EntryLeft(Top)
    /\ stack' = SubSeq(stack, 1, Len(stack) - 1)
    /\ nested' = IF Len(stack) = 1 THEN 0 ELSE nested
    /\ UNCHANGED <<values, proto, requestUpdates, hasChangedFunctions, listeners, accessors>>
    /\ UNCHANGED <<last, setCalls, callbacks, closures, reads>>

\* the absent argument defaultValue of get
NoDefault == Undefined

Get(key, defaultValue) ==
    /\ CanCall
    /\ nested' = Counted
    /\ last' = [op |-> "get", key |-> key, defaultValue |-> defaultValue,
                result |-> get(key, defaultValue)]
    /\ UNCHANGED <<values, proto, requestUpdates, hasChangedFunctions, listeners,
                   accessors, stack>>
    /\ UNCHANGED <<setCalls, callbacks, closures, reads>>

\* the decorator share(options) applied to property propertyKey of class cls:
\* optionsKey and optionsHasChanged are Absent when the option is not given.
\* Object.defineProperty raises a TypeError when the prototype already has the
\* accessor (it is not configurable); the equality function is stored before.
share(cls, propertyKey, optionsKey, optionsHasChanged) ==
    /\ stack = <<>>
    /\ LET shareKey == IF optionsKey # Absent THEN optionsKey ELSE propertyKey IN
       /\ shareKey \in Keys
       /\ hasChangedFunctions' =
              IF optionsHasChanged # Absent
              THEN [hasChangedFunctions EXCEPT ![shareKey] = optionsHasChanged]
              ELSE hasChangedFunctions
       /\ IF accessors[cls][propertyKey] = Absent
          THEN /\ accessors' = [accessors EXCEPT ![cls][propertyKey] = shareKey]
               /\ last' = [op |-> "share", outcome |-> "returned", key |-> shareKey,
                           replaced |-> hasChangedFunctions[shareKey]]
          ELSE /\ accessors' = accessors
               /\ last' = [op |-> "share", outcome |-> "threw", key |-> shareKey,
                           replaced |-> hasChangedFunctions[shareKey]]
    /\ UNCHANGED <<values, proto, requestUpdates, listeners, stack, nested>>
    /\ UNCHANGED <<setCalls, callbacks, closures, reads>>

\* PropRead without line 210: the getter only returns get(shareKey)
PropRead_WithoutRegister(element, propertyKey) ==
    /\ CanCall
    /\ accessors[ClassOf(element)][propertyKey] # Absent
    /\ last' = [op |-> "read", key |-> accessors[ClassOf(element)][propertyKey],
                element |-> element, first |-> TRUE,
                result |-> get(accessors[ClassOf(element)][propertyKey], NoDefault)]
    /\ stack' = Reentered(stack)
    /\ nested' = Counted
    /\ UNCHANGED <<values, proto, requestUpdates, hasChangedFunctions, listeners, accessors>>
    /\ reads' = reads \cup {<<element, propertyKey>>}
    /\ UNCHANGED <<setCalls, callbacks, closures>>

\* lines 208-212, the getter of a bound property: the component is registered
\* for shareKey without a target, then get(shareKey) is returned
PropRead(element, propertyKey) ==
    /\ CanCall
    /\ accessors[ClassOf(element)][propertyKey] # Absent
    /\ LET shareKey == accessors[ClassOf(element)][propertyKey] IN
       /\ requestUpdates' = [requestUpdates EXCEPT
                                ![shareKey] = Registered(shareKey, element, NoTarget)]
       /\ last' = [op |-> "read", key |-> shareKey, element |-> element,
                   first |-> EntryOf(shareKey, element) = 0,
                   result |-> get(shareKey, NoDefault)]
    /\ stack' = Reentered(stack)
    /\ nested' = Counted
    /\ UNCHANGED <<values, proto, hasChangedFunctions, listeners, accessors>>
    /\ reads' = reads \cup {<<element, propertyKey>>}
    /\ UNCHANGED <<setCalls, callbacks, closures>>

\* lines 204-207, the setter of a bound property: LitShare.set(shareKey, value)
PropWrite(element, propertyKey, value) ==
    /\ accessors[ClassOf(element)][propertyKey] # Absent
    /\ set(accessors[ClassOf(element)][propertyKey], value, FALSE)

-----------------------------------------------------------------------------
(* Specifications *)

\* the registry calls of a caller that draws its arguments from the sets
\* ks (keys), vs (values), es (elements), ls (listeners) and ts (targets)
Call(ks, vs, es, ls, ts) ==
    \/ \E k \in ks, e \in es, t \in ts : register(k, e, t)
    \/ \E k \in ks, e \in es : unregister(k, e)
    \/ \E e \in es : unregisterElement(e)
    \/ \E k \in ks, l \in ls : addListener(k, l)
    \/ \E k \in ks, l \in ls : removeListener(k, l)
    \/ \E k \in ks, v \in vs, force \in BOOLEAN : set(k, v, force)

\* the reads of a caller: keys from ks, default values from ds
Read(ks, ds) == \E k \in ks, d \in ds : Get(k, d)

\* the steps of a set call in progress
Dispatch ==
    \/ InvokeListener
    \/ InvokeUpdate
    \/ CallbackReturn
    \/ SetReturn

\* Spec: one key, two listeners, one component with up to two properties;
\* listeners and components call back into the registry
Next ==
    \/ Call({"count"}, {"n0", "n1"}, {"c1"}, Listeners, {NoTarget, "data"})
    \/ Dispatch

Spec == Init /\ [][Next]_vars

\* SpecSubs: one key, one listener, two components with up to two properties
\* each; listeners and components call back into the registry
NextSubs ==
    \/ Call({"count"}, {"n0", "n1"}, Elements, {"l1"}, {NoTarget, "data"})
    \/ Dispatch

SpecSubs == Init /\ [][NextSubs]_vars

\* SpecKeys: the two names Object.prototype defines (a data property and the
\* __proto__ accessor) as keys, under the default equality; one listener and
\* one component, which return without calling the registry; the host also
\* calls requestUpdate directly
NextKeys ==
    \/ Call(InheritedKeys, {Undefined, Null, "n1", NaN, "O1"}, {"c1"}, {"l1"}, {NoTarget})
    \/ Read(InheritedKeys, {NoDefault, "n1"})
    \/ \E k \in InheritedKeys, v \in {Undefined, "n1"}, force \in BOOLEAN :
           requestUpdate(k, v, force)
    \/ Dispatch
    \/ RequestUpdateReturn

SpecKeys == InitQuiet /\ [][NextKeys]_vars

\* SpecEq: one ordinary key with the equality functions the decorator declares
\* for it in two classes, all kinds of values; one listener and one component,
\* which return without calling the registry; the component's bound property
\* is read and written
NextEq ==
    \/ Call({"x"}, {Undefined, Null, "n1", NaN} \cup Objects, {"c1"}, {"l1"}, {NoTarget})
    \/ Read({"x"}, {NoDefault, "n1"})
    \/ \E c \in Classes, h \in HasChangedNames \cup {Absent} : share(c, "data", "x", h)
    \/ PropRead("c1", "data")
    \/ \E v \in {Undefined, "n1", "O1"} : PropWrite("c1", "data", v)
    \/ Dispatch

SpecEq == InitQuiet /\ [][NextEq]_vars

\* SpecThrow: one key, two listeners, one component; listeners and components
\* call back into the registry, raise errors, and the host keeps and invokes
\* the closures addListener returns
NextThrow ==
    \/ Call({"count"}, {"n1"}, {"c1"}, Listeners, {NoTarget})
    \/ \E l \in Listeners : unsubscribe("count", l)
    \/ Dispatch
    \/ CallbackThrow

SpecThrow == Init /\ [][NextThrow]_vars

\* SpecTable: two keys, two components subscribed under the key's own name,
\* one listener; listeners and components call back into the registry
NextTable ==
    \/ Call({"count", "x"}, {"n1"}, Elements, {"l1"}, {NoTarget})
    \/ Dispatch

SpecTable == Init /\ [][NextTable]_vars

\* SpecKeysThrow: the keys of SpecKeys with one listener and one component
\* that return or raise an error without calling the registry
NextKeysThrow ==
    \/ Call(InheritedKeys, {"n1", Null}, {"c1"}, {"l1"}, {NoTarget})
    \/ Dispatch
    \/ CallbackThrow

SpecKeysThrow == InitQuiet /\ [][NextKeysThrow]_vars

\* SpecBind: class B binds its property to the key "x" with an equality
\* function, class A binds its property to the same key without one; the
\* component of class A reads and writes its property, and the host calls the
\* registry directly; callbacks return without calling the registry
NextBind ==
    \/ Call({"x"}, {"n1"} \cup Objects, {"c1"}, {"l1"}, {NoTarget})
    \/ \E h \in HasChangedNames : share("B", "data", "x", h)
    \/ share("A", "data", "x", Absent)
    \/ PropRead("c1", "data")
    \/ \E v \in {"n1"} \cup Objects : PropWrite("c1", "data", v)
    \/ Dispatch

SpecBind == InitQuiet /\ [][NextBind]_vars

\* addListener called by the host, not from inside a callback
HostAddListener(key, listener) == stack = <<>> /\ addListener(key, listener)

\* SpecRemove: one key, two listeners the host adds, one component; listeners
\* and components call back into the registry to remove listeners, to write
\* the key and to change subscriptions, but add no listener
NextRemove ==
    \/ \E l \in Listeners : HostAddListener("count", l)
    \/ \E l \in Listeners : removeListener("count", l)
    \/ \E v \in {"n0", "n1"}, force \in BOOLEAN : set("count", v, force)
    \/ register("count", "c1", NoTarget)
    \/ unregister("count", "c1")
    \/ Dispatch

SpecRemove == Init /\ [][NextRemove]_vars

-----------------------------------------------------------------------------
(* Vocabulary of the claims *)

\* this step is the entry of a set call: its equality check has not thrown
SetEntered ==
    /\ last' # last
    /\ last'.op = "set"
    /\ last'.outcome \in {"accepted", "rejected"}

\* this step calls a listener or a component
CallbackMade ==
    /\ Len(stack') = Len(stack) + 1
    /\ stack'[Len(stack')].kind = "callback"

\* the callback this step makes
MadeEvent == stack'[Len(stack')].event

\* both loops of the set call of frame f are over
Finished(f) == f.kind = "set" /\ ~ListenerLeft(f) /\ ~TargetLeft(f) /\ ~EntryLeft(f)

\* the innermost call is a set call about to return, none of whose callbacks
\* called the registry
QuietCallDone == stack # <<>> /\ Finished(Top) /\ ~Top.reentered

\* how often the call of frame f has called listener l
ListenerCalls(f, l) ==
    Cardinality({n \in DOMAIN f.log : f.log[n].type = "listener" /\ f.log[n].who = l})

\* how often the call of frame f has asked element e to update property t
UpdateRequests(f, e, t) ==
    Cardinality({n \in DOMAIN f.log :
                    /\ f.log[n].type = "update"
                    /\ f.log[n].who = e
                    /\ f.log[n].target = t})

\* the call of frame f has made no update request yet
NoUpdateYet(f) == \A n \in DOMAIN f.log : f.log[n].type = "listener"

\* element e is subscribed to key k for property t
Subscribed(k, e, t) ==
    /\ findRequestUpdate(k, e) # NoTargets
    /\ Includes(findRequestUpdate(k, e)[1], t)

\* the value the registry holds for key k as the specification describes its
\* store: what a set call put there, "no value" when there is none
StoredValue(k) == IF values[k] # Absent THEN values[k] ELSE Undefined

-----------------------------------------------------------------------------
(* C1 *)

\* C1: a non-forced set whose equality function (the key's own, or the default
\* one) reports "not changed" changes no value, no subscription, no listener
\* set and no equality function, and calls no listener and no component.
C1_RejectedSetHasNoEffect ==
    [][(/\ SetEntered
        /\ ~last'.force
        /\ ~HasChanged(last'.key, last'.value, Lookup(last'.key)))
       => /\ UNCHANGED <<values, proto, requestUpdates, hasChangedFunctions, listeners>>
          /\ Len(stack') = Len(stack)]_vars

\* a custom equality function has rejected a value that differs from the
\* stored one, on a key that has a listener and a subscriber
C1_Witness ==
    /\ last.op = "set"
    /\ last.outcome = "rejected"
    /\ hasChangedFunctions[last.key] # Absent
    /\ last.value # Lookup(last.key)
    /\ listeners[last.key] # <<>>
    /\ requestUpdates[last.key] # <<>>

-----------------------------------------------------------------------------
(* C2 *)

\* C2: within one set call no listener is called after a component has been
\* asked to update, and when the first component is asked, every listener
\* registered for the key has been called by this call; also when listeners
\* and components call the registry.
C2_ListenersBeforeUpdates ==
    [][CallbackMade =>
        /\ MadeEvent.type = "listener" => NoUpdateYet(Top)
        /\ (MadeEvent.type = "update" /\ NoUpdateYet(Top)) =>
               \A n \in DOMAIN listeners[Top.key] :
                   ListenerCalls(Top, listeners[Top.key][n]) >= 1]_vars

\* a component is asked to update by a call that has called two listeners,
\* one of which called the registry
C2_Witness ==
    /\ Len(stack) >= 2
    /\ Top.kind = "callback"
    /\ Top.event.type = "update"
    /\ stack[Len(stack) - 1].reentered
    /\ \A l \in Listeners : ListenerCalls(stack[Len(stack) - 1], l) >= 1

-----------------------------------------------------------------------------
(* C3 *)

\* C3: after set(k, v) has returned, get(k) returns exactly v, for every key,
\* every value and every equality function.
C3_GetReturnsWhatWasSet ==
    (/\ stack = <<>>
     /\ last.op = "set"
     /\ last.outcome \in {"rejected", "returned"})
    => get(last.key, NoDefault) = last.value

-----------------------------------------------------------------------------
(* C4 *)

\* C4: get(k, d) returns d for every key k that no set call has been made with.
C4_NeverSetKeyReadsDefault ==
    (last.op = "get" /\ last.key \notin setCalls) => last.result = last.defaultValue

-----------------------------------------------------------------------------
(* C5 *)

\* C5: a forced set is never rejected and never fails in the equality
\* function, its value is the stored one once it has been accepted, and, when
\* no callback calls the registry, it calls every listener of the key and asks
\* for an update of every subscribed (component, property) pair.
C5_ForcedWriteStoresAndNotifies ==
    /\ (last.op = "set" /\ last.force) =>
           /\ last.outcome \in {"accepted", "returned"}
           /\ last.outcome = "accepted" => get(last.key, NoDefault) = last.value
    /\ (QuietCallDone /\ Top.force) =>
           /\ \A n \in DOMAIN listeners[Top.key] :
                  ListenerCalls(Top, listeners[Top.key][n]) >= 1
           /\ \A e \in Elements, t \in Targets :
                  Subscribed(Top.key, e, t) => UpdateRequests(Top, e, t) >= 1

-----------------------------------------------------------------------------
(* C6 *)

\* C6, the second call: under the default equality, a non-forced set(k, v)
\* that follows a non-forced set(k, v) is rejected.
C6_SecondSetIsNoOp ==
    [][(/\ stack = <<>>
        /\ last.op = "set"
        /\ last.outcome \in {"rejected", "returned"}
        /\ ~last.force
        /\ hasChangedFunctions[last.key] = Absent
        /\ SetEntered
        /\ last'.key = last.key
        /\ last'.value = last.value
        /\ ~last'.force)
       => last'.outcome = "rejected"]_vars

-----------------------------------------------------------------------------
(* C7 *)

\* value !== oldValue, and not both are NaN
Differs(value, oldValue) == ~StrictEq(value, oldValue) /\ ~(value = NaN /\ oldValue = NaN)

\* C7: for a key with no equality function of its own, a non-forced set is
\* accepted exactly when the value differs from the stored one, "no value"
\* being the stored value of a key that was never written.
C7_DefaultEqualityDecides ==
    [][(/\ SetEntered
        /\ ~last'.force
        /\ hasChangedFunctions[last'.key] = Absent)
       => (last'.outcome = "accepted" <=> Differs(last'.value, StoredValue(last'.key)))]_vars

-----------------------------------------------------------------------------
(* C8 *)

\* C8: unregister(k, c) leaves findRequestUpdate(k, c) absent, and a component
\* is asked to update for key k only while it is subscribed to k: not after
\* an unregister(k, c) that no register(k, c) has followed, wherever the
\* unregister call was made.
C8_NoUpdateAfterUnregister ==
    [][/\ \A k \in Keys, e \in Elements :
              unregister(k, e) => findRequestUpdate(k, e)' = NoTargets
       /\ (CallbackMade /\ MadeEvent.type = "update") =>
              findRequestUpdate(MadeEvent.key, MadeEvent.who) # NoTargets]_vars

-----------------------------------------------------------------------------
(* C9 *)

\* C9: a set call that was accepted, none of whose callbacks called the
\* registry, has asked for exactly one update of each (component, property)
\* pair subscribed to its key, and for none of any other pair.
C9_OneUpdatePerPair ==
    QuietCallDone =>
        \A e \in Elements, t \in Targets :
            UpdateRequests(Top, e, t) = IF Subscribed(Top.key, e, t) THEN 1 ELSE 0

\* such a call ends with one component subscribed for two properties and the
\* other component not subscribed
C9_Witness ==
    /\ QuietCallDone
    /\ \E e \in Elements :
           /\ findRequestUpdate(Top.key, e) # NoTargets
           /\ Len(findRequestUpdate(Top.key, e)[1]) = 2
           /\ \A t \in {"count", "data"} : UpdateRequests(Top, e, t) = 1
    /\ \E e \in Elements : findRequestUpdate(Top.key, e) = NoTargets

-----------------------------------------------------------------------------
(* C10 *)

\* C10: a listener is called with the value of the set call and with the
\* value stored before it, "no value" when no set call came before; a call
\* none of whose callbacks called the registry has called every listener of
\* its key once.
C10_ListenerArguments ==
    /\ (Len(stack) >= 2 /\ Top.kind = "callback" /\ Top.event.type = "listener") =>
           LET f == stack[Len(stack) - 1] IN
           /\ Top.event.value = f.value
           /\ f.first => Top.event.oldValue = Undefined
    /\ QuietCallDone =>
           \A l \in Listeners :
               ListenerCalls(Top, l) =
                   IF ListenerAt(Top.key, l) # 0 THEN 1 ELSE 0

-----------------------------------------------------------------------------
(* C11 *)

\* C11: with the equality function (a, b) => a.id !== b.id on key "x", a
\* non-forced set("x", {id: 1}) on the never-written key completes, a
\* following set of another object with id 1 is rejected, and a following set
\* of an object with id 2 is accepted.
C11_IdScenarioCompletes ==
    (/\ last.op = "set" /\ last.key = "x" /\ ~last.force
     /\ hasChangedFunctions["x"] = "idDiffers")
    => /\ (last.value = "O1" /\ values["x"] = Absent) => last.outcome # "threw"
       /\ (last.value = "O2" /\ last.oldValue = "O1") => last.outcome = "rejected"
       /\ (last.value = "O3" /\ last.oldValue \in {"O1", "O2"}) =>
              last.outcome \in {"accepted", "returned"}

-----------------------------------------------------------------------------
(* C12 *)

\* C12: when a listener has raised an error during a set call, the call has
\* been left: its frame is off the stack, so the error is with the caller and
\* the call invokes no further listener and asks no component to update.
C12_ListenerErrorAborts ==
    (last.op = "set" /\ last.outcome = "aborted" /\ last.by = "listener")
    => Len(stack) < last.at

\* a listener raised while another listener and a subscribed component were
\* still to be notified
C12_Witness ==
    /\ last.op = "set" /\ last.outcome = "aborted" /\ last.by = "listener"
    /\ last.left >= 1
    /\ requestUpdates[last.key] # <<>>

-----------------------------------------------------------------------------
(* C13 *)

\* C13: invoking the closure addListener(k, l) returned leaves l off the
\* listeners of k and every other listener registration as it was; invoking
\* it again changes nothing in the registry, whatever was called in between.
C13_ClosureRemovesOnce ==
    [][\A k \in Keys, l \in Listeners :
          unsubscribe(k, l) =>
              /\ ListenerAt(k, l)' = 0
              /\ \A k2 \in Keys, l2 \in Listeners :
                     <<k2, l2>> # <<k, l>> =>
                         ((ListenerAt(k2, l2)' = 0) <=> (ListenerAt(k2, l2) = 0))
              /\ closures[k][l] = "called" =>
                     UNCHANGED <<values, proto, requestUpdates, hasChangedFunctions,
                                 listeners>>]_vars

-----------------------------------------------------------------------------
(* C14 *)

\* C14: register(k, c, p) records c under k for the property p, for the
\* property named k when p is omitted, and changes nothing when that triple is
\* recorded already.
C14_RegisterIsIdempotent ==
    [][\A k \in Keys, e \in Elements, t \in Targets \cup {NoTarget} :
          register(k, e, t) =>
              LET p == IF t = NoTarget THEN k ELSE t IN
              /\ Subscribed(k, e, p)'
              /\ Subscribed(k, e, p) => requestUpdates' = requestUpdates]_vars

\* a register call that repeated a triple, made for a component subscribed
\* under two property names, one of them the key
C14_Witness ==
    /\ last.op = "register" /\ last.again
    /\ \E k \in Keys, e \in Elements :
           /\ Subscribed(k, e, k)
           /\ Len(findRequestUpdate(k, e)[1]) = 2

-----------------------------------------------------------------------------
(* C15 *)

\* C15: in every state, no subscriber map holds a component with an empty
\* list of property names, and no list holds a property name twice.
C15_NoEmptyNoDuplicateTargets ==
    \A k \in Keys : \A n \in DOMAIN requestUpdates[k] :
        LET targets == requestUpdates[k][n].targets IN
        /\ Len(targets) >= 1
        /\ \A a, b \in DOMAIN targets : a # b => targets[a] # targets[b]

\* after an unregister call that was made while a set call was dispatching,
\* one component is subscribed under two property names and the other under none
C15_Witness ==
    /\ last.op \in {"unregister", "unregisterElement"}
    /\ stack # <<>>
    /\ \E k \in Keys, e1, e2 \in Elements :
           /\ findRequestUpdate(k, e1) # NoTargets
           /\ Len(findRequestUpdate(k, e1)[1]) = 2
           /\ findRequestUpdate(k, e2) = NoTargets

-----------------------------------------------------------------------------
(* C16 *)

\* C16: unregisterElement(c) leaves c subscribed to no key and leaves every
\* other component's subscriptions, the values, the listeners and the equality
\* functions as they were; a component that is subscribed to no list of a key
\* is asked to update for that key only by a set call that was already going
\* through the component's properties when its entry was removed.
C16_UnregisterElementRemovesAll ==
    [][/\ \A e \in Elements :
              unregisterElement(e) =>
                  /\ \A k \in Keys : findRequestUpdate(k, e)' = NoTargets
                  /\ \A k \in Keys, o \in Elements \ {e} :
                         findRequestUpdate(k, o)' = findRequestUpdate(k, o)
                  /\ UNCHANGED <<values, proto, listeners, hasChangedFunctions>>
       /\ (CallbackMade /\ MadeEvent.type = "update") =>
              \/ findRequestUpdate(MadeEvent.key, MadeEvent.who) # NoTargets
              \/ Top.detached]_vars

\* unregisterElement has removed a component from two keys, and the other
\* component is still subscribed to both
C16_Witness ==
    /\ last.op = "unregisterElement" /\ last.removed = 2
    /\ \E o \in Elements :
           \A k \in {"count", "x"} : findRequestUpdate(k, o) # NoTargets

-----------------------------------------------------------------------------
(* C17 *)

\* C17: a component is asked to update with the hint "no previous value" when
\* the call is forced, with the oldValue argument when requestUpdate was
\* called directly without force, and with the value stored before the write
\* when a non-forced set made the request ("no value" for the first set call
\* of a key); a call whose callbacks do not call the registry asks every
\* subscribed (component, property) pair.
C17_UpdateHint ==
    /\ (Len(stack) >= 2 /\ Top.kind = "callback" /\ Top.event.type = "update") =>
           LET f == stack[Len(stack) - 1] IN
           /\ f.force => Top.event.oldValue = Undefined
           /\ (~f.force /\ f.kind = "requestUpdate") => Top.event.oldValue = f.oldValue
           /\ (~f.force /\ f.kind = "set" /\ f.first) => Top.event.oldValue = Undefined
    /\ (/\ stack # <<>> /\ Top.kind \in {"set", "requestUpdate"}
        /\ ~ListenerLeft(Top) /\ ~TargetLeft(Top) /\ ~EntryLeft(Top) /\ ~Top.reentered) =>
           \A e \in Elements, t \in Targets :
               Subscribed(Top.key, e, t) => UpdateRequests(Top, e, t) = 1

-----------------------------------------------------------------------------
(* C18 *)

\* C18: declaring a bound property and writing it never change the subscriber
\* table; reading it leaves the reading component subscribed to the key, every
\* other subscription as it was, and returns what get(key) returns; and a
\* component that is not subscribed to a key is not asked to update for it.
C18_RegistrationIsLazy ==
    [][/\ \A e \in Elements, p \in Props :
              /\ (\E v \in Values : PropWrite(e, p, v)) => UNCHANGED requestUpdates
              /\ PropRead(e, p) =>
                     LET k == accessors[ClassOf(e)][p] IN
                     /\ findRequestUpdate(k, e)' # NoTargets
                     /\ last'.result = get(k, NoDefault)
                     /\ \A k2 \in Keys, o \in Elements :
                            <<k2, o>> # <<k, e>> =>
                                findRequestUpdate(k2, o)' = findRequestUpdate(k2, o)
       /\ (\E c \in Classes, p \in Props, k \in Keys \cup {Absent},
               h \in HasChangedNames \cup {Absent} : share(c, p, k, h))
              => UNCHANGED requestUpdates
       /\ (CallbackMade /\ MadeEvent.type = "update") =>
              findRequestUpdate(MadeEvent.key, MadeEvent.who) # NoTargets]_vars

\* the first read of a bound property, after a value was written to the key
\* while the component was not subscribed
C18_Witness ==
    /\ last.op = "read" /\ last.first
    /\ last.result # Undefined
    /\ findRequestUpdate(last.key, last.element) # NoTargets

-----------------------------------------------------------------------------
(* C19 *)

\* the result of the equality function named h, the default when h is Absent
Decides(h, value, oldValue) ==
    CASE h = "idDiffers" -> idDiffers(value, oldValue)
      [] h = "demoHasChanged" -> demoHasChanged(value, oldValue)
      [] h = "always" -> TRUE
      [] OTHER -> defaultHasChanged(value, oldValue)

\* C19: a declaration that gives an equality function makes it the one
\* function stored for its key, replacing what was stored; no other step
\* changes the stored functions; a non-forced set is decided by the function
\* stored for its key, by the default equality when none is stored.
C19_LastEqualityFunctionWins ==
    [][/\ \A c \in Classes, p \in Props, k \in Keys \cup {Absent},
             h \in HasChangedNames \cup {Absent} :
              share(c, p, k, h) =>
                  LET shareKey == IF k # Absent THEN k ELSE p IN
                  hasChangedFunctions' =
                      IF h = Absent THEN hasChangedFunctions
                      ELSE [hasChangedFunctions EXCEPT ![shareKey] = h]
       /\ last'.op # "share" => UNCHANGED hasChangedFunctions
       /\ (SetEntered /\ ~last'.force) =>
              (last'.outcome = "accepted" <=>
                  Decides(hasChangedFunctions[last'.key], last'.value, Lookup(last'.key)))]_vars

\* a declaration has replaced the equality function another declaration stored
C19_Witness ==
    /\ last.op = "share"
    /\ last.replaced # Absent
    /\ hasChangedFunctions[last.key] \notin {Absent, last.replaced}
    /\ \A c \in Classes : accessors[c]["data"] = last.key

-----------------------------------------------------------------------------
(* C20 *)

\* the registry state that calls can change
Registry == <<values, proto, requestUpdates, hasChangedFunctions, listeners>>

\* C20 as stated: while a set call is in progress no registry operation takes
\* effect (no value, subscription or listener changes, no other set call
\* begins), and a set call returns only when its loops are over.
C20_SetIsCriticalSection ==
    [][/\ Depth >= 1 => (UNCHANGED Registry /\ Depth' <= Depth)
       /\ (Depth' < Depth /\ Len(stack') = Len(stack) - 1) => Finished(Top)]_vars

\* C20 amended: while a set call is running its own code (it is the innermost
\* frame) no registry operation takes effect; registry operations take effect
\* during a set call only when a listener or a component of the call makes
\* them from inside its callback; a set call returns only when its loops are
\* over.
C20_OnlyCallbacksInterleave ==
    [][/\ (stack # <<>> /\ Top.kind = "set") => (UNCHANGED Registry /\ Depth' <= Depth)
       /\ (Depth' < Depth /\ Len(stack') = Len(stack) - 1) => Finished(Top)]_vars

\* a set call made from inside a listener of another set call is in progress
\* and has changed the stored value
C20_Witness ==
    /\ Depth = 2
    /\ Top.kind = "set"
    /\ stack[1].kind = "set" /\ stack[1].reentered
    /\ stack[2].event.type = "listener"
    /\ Top.key = stack[1].key /\ Top.value # stack[1].value

-----------------------------------------------------------------------------
(* C21 *)

\* C21: while the equality function of key k is one that always reports
\* "changed", no non-forced set(k, v) is rejected or fails in the function,
\* whatever v and the stored value are, and such a call, when its callbacks
\* only return, has called every listener of k and asked for an update of
\* every (component, property) pair subscribed to k.
C21_AlwaysChangedAccepts ==
    /\ (last.op = "set" /\ ~last.force /\ hasChangedFunctions[last.key] = "always") =>
           last.outcome \in {"accepted", "returned"}
    /\ (QuietCallDone /\ ~Top.force /\ hasChangedFunctions[Top.key] = "always") =>
           /\ \A n \in DOMAIN listeners[Top.key] :
                  ListenerCalls(Top, listeners[Top.key][n]) >= 1
           /\ \A e \in Elements, t \in Targets :
                  Subscribed(Top.key, e, t) => UpdateRequests(Top, e, t) >= 1

\* a non-forced call that wrote the value already stored is about to return,
\* having called a listener and asked a component
C21_Witness ==
    /\ QuietCallDone
    /\ ~Top.force
    /\ hasChangedFunctions[Top.key] = "always"
    /\ StrictEq(Top.value, Top.oldValue)
    /\ \E l \in Listeners : ListenerCalls(Top, l) = 1
    /\ \E e \in Elements : UpdateRequests(Top, e, Top.key) = 1

-----------------------------------------------------------------------------
(* C22 *)

\* C22: when share({key: K}) binds property P of a component's class to a key
\* K other than P and the component has read P (and has not been unregistered
\* since), the component is subscribed to K for property P, and a set(K, *)
\* call that was accepted, none of whose callbacks called the registry, has
\* asked the component to update P.
C22_BoundPropertyIsRefreshed ==
    \A e \in Elements, p \in Props :
        LET K == accessors[ClassOf(e)][p] IN
        (<<e, p>> \in reads /\ K # p) =>
            /\ Subscribed(K, e, p)
            /\ (QuietCallDone /\ Top.key = K) => UpdateRequests(Top, e, p) >= 1

-----------------------------------------------------------------------------
(* C23 *)

\* C23: at the moment a set call on key k calls a listener with (newValue,
\* oldValue), get(k) returns newValue; for every listener of every set call,
\* also when an earlier listener of the same call has called set on k.
C23_ListenerSeesStoredValue ==
    [][(CallbackMade /\ MadeEvent.type = "listener") =>
           get(Top.key, NoDefault) = MadeEvent.value]_vars

-----------------------------------------------------------------------------
(* C24 *)

\* C24: unregister(k, c) leaves c without any property name under k; the
\* property names of c under every other key and of every other component
\* under every key are what they were, as are the values, the listeners and
\* the equality functions; when c has no subscription under k, no part of the
\* registry changes.
C24_UnregisterRemovesOnlyThePair ==
    [][\A k \in Keys, e \in Elements :
          unregister(k, e) =>
              /\ findRequestUpdate(k, e)' = NoTargets
              /\ \A k2 \in Keys, e2 \in Elements :
                     (k2 # k \/ e2 # e) =>
                         findRequestUpdate(k2, e2)' = findRequestUpdate(k2, e2)
              /\ UNCHANGED <<values, proto, hasChangedFunctions, listeners>>
              /\ findRequestUpdate(k, e) = NoTargets => UNCHANGED Registry]_vars

\* unregister, called by a component from its update callback, has removed the
\* component's two property names under the key at once, and the other
\* component still has its two
C24_Witness ==
    /\ last.op = "unregister"
    /\ \E n \in DOMAIN stack, e2 \in Elements :
           /\ stack[n].kind = "set"
           /\ stack[n].detached
           /\ Len(stack[n].targets) = 2
           /\ findRequestUpdate(stack[n].key, stack[n].element) = NoTargets
           /\ e2 # stack[n].element
           /\ findRequestUpdate(stack[n].key, e2) # NoTargets
           /\ Len(findRequestUpdate(stack[n].key, e2)[1]) = 2

-----------------------------------------------------------------------------
(* C25 *)

\* C25: when a listener raises an error during an accepted set(k, v), get(k)
\* returns v after the failed call, and a non-forced set(k, v) that follows it
\* under the default equality is rejected, so that it notifies nobody.
C25_FailedCallKeepsItsWrite ==
    [][/\ (last'.op = "set" /\ last'.outcome = "aborted" /\ last'.by = "listener") =>
              (get(last.key, NoDefault) = last.value)'
       /\ (/\ last.op = "set" /\ last.outcome = "aborted" /\ last.by = "listener"
           /\ hasChangedFunctions[last.key] = Absent
           /\ SetEntered
           /\ last'.key = last.key
           /\ last'.value = last.value
           /\ ~last'.force)
          => /\ last'.outcome = "rejected"
             /\ Len(stack') = Len(stack)]_vars

-----------------------------------------------------------------------------
(* C26 *)

\* this step is a set call that comes to its end or to its first callback
SetCalled ==
    /\ last' # last
    /\ last'.op = "set"
    /\ last'.outcome \in {"accepted", "rejected", "threw"}

\* C26: a non-forced set(k, v) whose equality function raises an error on
\* (v, stored value) ends with that error, and a call that ends so has changed
\* no value, no subscription, no listener set and no equality function and
\* has called no listener and no component; a forced set is accepted whatever
\* the function would do.
C26_EqualityErrorChangesNothing ==
    [][SetCalled =>
          /\ (~last'.force /\ HasChangedThrows(last'.key, last'.value, Lookup(last'.key)))
                 => last'.outcome = "threw"
          /\ last'.outcome = "threw" =>
                 /\ ~last'.force
                 /\ UNCHANGED Registry
                 /\ Len(stack') = Len(stack)
          /\ last'.force => last'.outcome = "accepted"]_vars

\* the equality function of a key that has a stored object, a listener and a
\* subscriber has raised an error
C26_Witness ==
    /\ last.op = "set"
    /\ last.outcome = "threw"
    /\ values[last.key] \in Objects
    /\ listeners[last.key] # <<>>
    /\ requestUpdates[last.key] # <<>>

-----------------------------------------------------------------------------
(* C27 *)

\* C27: a set call on key k leaves what get returns for every other key as it
\* was; and a set call on k, none of whose callbacks called the registry, has
\* called no listener that is not registered for k and has asked for no update
\* of a (component, property) pair that is not subscribed under k.
C27_KeysAreIsolated ==
    [][/\ SetCalled =>
              \A k2 \in Keys \ {last'.key}, d \in {NoDefault, "n1"} :
                  get(k2, d)' = get(k2, d)
       /\ QuietCallDone =>
              /\ \A l \in Listeners :
                     ListenerAt(Top.key, l) = 0 => ListenerCalls(Top, l) = 0
              /\ \A e \in Elements, t \in Targets :
                     ~Subscribed(Top.key, e, t) => UpdateRequests(Top, e, t) = 0]_vars

-----------------------------------------------------------------------------
(* C28 *)

\* C28: after a set call on key k has been accepted, get(k, d) does not return
\* the default d, and from then on as before, what get(k, d) returns changes
\* only in a step that is an accepted set call on k: not by unregister,
\* unregisterElement, removeListener or any other operation.  (The default
\* used is a value that no set call stores.)
C28_StoredValueStays ==
    [][/\ (SetCalled /\ last'.outcome = "accepted") =>
              (get(last.key, "n0") # "n0")'
       /\ \A k \in Keys :
              (get(k, "n0")' # get(k, "n0")) =>
                  (SetCalled /\ last'.outcome = "accepted" /\ last'.key = k)]_vars

-----------------------------------------------------------------------------
(* C29 *)

\* C29: a non-forced write to a key that has an equality function, made by a
\* direct set call or through the bound property of a component whose class
\* declared the binding without a function, is rejected when the function
\* reports "not changed" on (value, stored value): it changes no value, no
\* subscription, no listener set and no equality function and calls nobody;
\* and a declaration without an equality function leaves the functions of
\* all keys as they are.
C29_KeyFunctionGovernsAllWrites ==
    [][/\ (/\ SetCalled
           /\ ~last'.force
           /\ hasChangedFunctions[last'.key] # Absent
           /\ ~HasChangedThrows(last'.key, last'.value, Lookup(last'.key))
           /\ ~Decides(hasChangedFunctions[last'.key], last'.value, Lookup(last'.key)))
          => /\ last'.outcome = "rejected"
             /\ UNCHANGED Registry
             /\ Len(stack') = Len(stack)
       /\ \A c \in Classes, p \in Props, k \in Keys \cup {Absent} :
              share(c, p, k, Absent) => UNCHANGED hasChangedFunctions]_vars

\* class A has bound its property to the key without a function, the key has
\* the function class B declared, and that function has rejected a write which
\* the default equality would have accepted, on a key with a listener and a
\* subscribed component of class A that has read its property
C29_Witness ==
    /\ last.op = "set"
    /\ last.outcome = "rejected"
    /\ accessors["A"]["data"] = last.key
    /\ hasChangedFunctions[last.key] # Absent
    /\ defaultHasChanged(last.value, Lookup(last.key))
    /\ listeners[last.key] # <<>>
    /\ <<"c1", "data">> \in reads

-----------------------------------------------------------------------------
(* C30 *)

\* C30: when listeners are removed from inside callbacks while set calls are
\* dispatching (and none is added), a set call calls only listeners that are
\* registered for its key at that moment, calls no listener twice, and has,
\* when its loops are over, called every listener that is still registered
\* for its key.
C30_RemovalDuringDispatch ==
    [][/\ (CallbackMade /\ MadeEvent.type = "listener") =>
              /\ ListenerAt(Top.key, MadeEvent.who) # 0
              /\ ListenerCalls(Top, MadeEvent.who) = 0
       /\ (stack # <<>> /\ Finished(Top)) =>
              \A n \in DOMAIN listeners[Top.key] :
                  ListenerCalls(Top, listeners[Top.key][n]) = 1]_vars

\* the first of two listeners has removed itself from inside its callback,
\* and the call has gone on to call the second one
C30_Witness ==
    /\ Len(stack) = 1
    /\ Finished(Top)
    /\ Top.reentered
    /\ last.op = "removeListener"
    /\ listeners[Top.key] = <<"l2">>
    /\ Len(Top.log) >= 2
    /\ Top.log[1].who = "l1"
    /\ Top.log[2].who = "l2"

=============================================================================
